---- MODULE Spec2Model ----
(***************************************************************************)
(* Model of src/main.py: the PDF upload handler (upload_pdf) and the pure  *)
(* functions it calls (analyze_text, summarize_analysis,                   *)
(* generate_paragraph_summary, detect_document_type,                       *)
(* assess_document_quality).                                               *)
(*                                                                         *)
(* Strings are sequences of one-character strings, so that substring       *)
(* tests, regular expressions, strip() and sorted() are computed on the    *)
(* characters as Python computes them.  Floating-point scores are kept in  *)
(* hundredths (0.25 is 25); every score the code adds is a multiple of     *)
(* 0.05 and round(.,2) of the sums is the exact hundredth.                 *)
(***************************************************************************)
EXTENDS Integers, Sequences, FiniteSets, TLC

VARIABLES OCR_AVAILABLE, content_type, pages, pc, analysis,
          summary, human_summary, document_type_info, quality

vars == <<OCR_AVAILABLE, content_type, pages, pc, analysis,
          summary, human_summary, document_type_info, quality>>

(***************************************************************************)
(* Bounds                                                                  *)
(***************************************************************************)
\* largest number of pages of an uploaded PDF
MaxPages == 2

(***************************************************************************)
(* Characters                                                              *)
(***************************************************************************)
\* the characters of the modelled texts, in code-point order
Alphabet == <<"\n"," ","-",".","0","1","2","3","4","5","6","7","8","9",":","A","B","C","D","E","F","G","H","I","J","K","L","M","N","O","P","Q","R","S","T","U","V","W","X","Y","Z","a","b","c","d","e","f","g","h","i","j","k","l","m","n","o","p","q","r","s","t","u","v","w","x","y","z">>

\* position of a character in code-point order (what str comparison uses)
Ord(c) == CHOOSE i \in 1..Len(Alphabet) : Alphabet[i] = c

IsDigit(c) == c \in {"0","1","2","3","4","5","6","7","8","9"}
IsUpper(c) == c \in {"A","B","C","D","E","F","G","H","I","J","K","L","M","N","O","P","Q","R","S","T","U","V","W","X","Y","Z"}
IsLower(c) == c \in {"a","b","c","d","e","f","g","h","i","j","k","l","m","n","o","p","q","r","s","t","u","v","w","x","y","z"}
\* \s, and the characters str.strip() removes
IsSpace(c) == c \in {" ", "\n"}
\* \w
IsWord(c) == IsDigit(c) \/ IsUpper(c) \/ IsLower(c)

Min(S) == CHOOSE x \in S : \A y \in S : x <= y
Max(S) == CHOOSE x \in S : \A y \in S : x >= y
Range(s) == {s[i] : i \in 1..Len(s)}

\* first position at or after i that holds no white space
RECURSIVE SkipSpaceForward(_, _)
SkipSpaceForward(t, i) ==
    IF i <= Len(t) /\ IsSpace(t[i]) THEN SkipSpaceForward(t, i + 1) ELSE i

\* last position at or before i that holds no white space
RECURSIVE SkipSpaceBackward(_, _)
SkipSpaceBackward(t, i) ==
    IF i >= 1 /\ IsSpace(t[i]) THEN SkipSpaceBackward(t, i - 1) ELSE i

\* str.strip()
Strip(t) == SubSeq(t, SkipSpaceForward(t, 1), SkipSpaceBackward(t, Len(t)))

\* the Python test  w in t  on strings
Contains(t, w) ==
    \E s \in 1..(Len(t) - Len(w) + 1) : SubSeq(t, s, s + Len(w) - 1) = w

\* s < t on strings: lexicographic by code point
RECURSIVE StrLess(_, _)
StrLess(s, t) ==
    IF t = << >> THEN FALSE
    ELSE IF s = << >> THEN TRUE
    ELSE IF Head(s) = Head(t) THEN StrLess(Tail(s), Tail(t))
    ELSE Ord(Head(s)) < Ord(Head(t))

\* sorted(..., reverse=True) in place of sorted(...)
RECURSIVE Sorted_Descending(_)
Sorted_Descending(S) ==
    IF S = {} THEN << >>
    ELSE LET m == CHOOSE x \in S : \A y \in S \ {x} : StrLess(y, x)
         IN  <<m>> \o Sorted_Descending(S \ {m})

\* sorted(set of strings)
RECURSIVE Sorted(_)
Sorted(S) ==
    IF S = {} THEN << >>
    ELSE LET m == CHOOSE x \in S : \A y \in S \ {x} : StrLess(x, y)
         IN  <<m>> \o Sorted(S \ {m})

(***************************************************************************)
(* Regular expressions of analyze_text and summarize_analysis              *)
(***************************************************************************)
WordAt(t, p) == p >= 1 /\ p <= Len(t) /\ IsWord(t[p])
\* \b between positions p-1 and p
Boundary(t, p) == WordAt(t, p - 1) # WordAt(t, p)
CharAt(t, p, c) == p >= 1 /\ p <= Len(t) /\ t[p] = c
DigitsAt(t, s, k) == \A p \in s..(s + k - 1) : p <= Len(t) /\ IsDigit(t[p])

\* first position at or after s that holds no digit
RECURSIVE DigitRunEnd(_, _)
DigitRunEnd(t, s) ==
    IF s <= Len(t) /\ IsDigit(t[s]) THEN DigitRunEnd(t, s + 1) ELSE s

\* first position at or after s that holds neither A-Z nor white space
RECURSIVE UpperRunEnd(_, _)
UpperRunEnd(t, s) ==
    IF s <= Len(t) /\ (IsUpper(t[s]) \/ IsSpace(t[s])) THEN UpperRunEnd(t, s + 1) ELSE s

\* \d{1,3} followed by something that is not a digit: the end of the group,
\* or 0.  (A shorter prefix of the digit run is followed by a digit, which
\* is neither "." nor a word boundary, so backtracking finds nothing else.)
DigitGroupEnd(t, s) ==
    LET e == DigitRunEnd(t, s)
    IN  IF e - s >= 1 /\ e - s <= 3 THEN e ELSE 0

\* \b\d{10,}\b at s: the position after the match, or 0
MatchApplicationNumber(t, s) ==
    LET e == DigitRunEnd(t, s)
    IN  IF Boundary(t, s) /\ e - s >= 10 /\ Boundary(t, e) THEN e ELSE 0

\* \b(?:\d{1,3}\.){3}\d{1,3}\b at s
MatchIpAddress(t, s) ==
    LET g1 == DigitGroupEnd(t, s)
        g2 == IF g1 > 0 /\ CharAt(t, g1, ".") THEN DigitGroupEnd(t, g1 + 1) ELSE 0
        g3 == IF g2 > 0 /\ CharAt(t, g2, ".") THEN DigitGroupEnd(t, g2 + 1) ELSE 0
        g4 == IF g3 > 0 /\ CharAt(t, g3, ".") THEN DigitGroupEnd(t, g3 + 1) ELSE 0
    IN  IF Boundary(t, s) /\ g4 > 0 /\ Boundary(t, g4) THEN g4 ELSE 0

\* \b\d{4}-\d{2}-\d{2}\b|\b\d{2}-\d{2}-\d{4}\b at s
MatchDate(t, s) ==
    IF /\ Boundary(t, s)
       /\ \/ /\ DigitsAt(t, s, 4) /\ CharAt(t, s + 4, "-")
             /\ DigitsAt(t, s + 5, 2) /\ CharAt(t, s + 7, "-")
             /\ DigitsAt(t, s + 8, 2)
          \/ /\ DigitsAt(t, s, 2) /\ CharAt(t, s + 2, "-")
             /\ DigitsAt(t, s + 3, 2) /\ CharAt(t, s + 5, "-")
             /\ DigitsAt(t, s + 6, 4)
       /\ Boundary(t, s + 10)
    THEN s + 10 ELSE 0

\* \b\d{2}:\d{2}(?::\d{2})?\b at s: the optional group is tried first
MatchTime(t, s) ==
    IF Boundary(t, s) /\ DigitsAt(t, s, 2) /\ CharAt(t, s + 2, ":") /\ DigitsAt(t, s + 3, 2)
    THEN IF CharAt(t, s + 5, ":") /\ DigitsAt(t, s + 6, 2) /\ Boundary(t, s + 8)
         THEN s + 8
         ELSE IF Boundary(t, s + 5) THEN s + 5 ELSE 0
    ELSE 0

\* \b[A-Z][A-Z\s]{4,}\b at s: the greedy run gives back characters until it
\* ends at a word boundary
MatchUppercase(t, s) ==
    IF Boundary(t, s) /\ s <= Len(t) /\ IsUpper(t[s])
    THEN LET e    == UpperRunEnd(t, s + 1)
             ends == {q \in (s + 5)..e : Boundary(t, q)}
         IN  IF ends = {} THEN 0 ELSE Max(ends)
    ELSE 0

MatchEnd(kind, t, s) ==
    CASE kind = "application_numbers" -> MatchApplicationNumber(t, s)
      [] kind = "ip_addresses"        -> MatchIpAddress(t, s)
      [] kind = "dates"               -> MatchDate(t, s)
      [] kind = "times"               -> MatchTime(t, s)
      [] kind = "uppercase"           -> MatchUppercase(t, s)

\* re.findall: leftmost non-overlapping matches, scanning on after each
RECURSIVE FindAllFrom(_, _, _)
FindAllFrom(kind, t, pos) ==
    IF pos > Len(t) THEN << >>
    ELSE LET e == MatchEnd(kind, t, pos)
         IN  IF e > pos
             THEN <<SubSeq(t, pos, e - 1)>> \o FindAllFrom(kind, t, e)
             ELSE FindAllFrom(kind, t, pos + 1)

FindAll(kind, t) == FindAllFrom(kind, t, 1)

analyze_text(text) ==
    [application_numbers |-> FindAll("application_numbers", text),
     ip_addresses        |-> FindAll("ip_addresses", text),
     dates               |-> FindAll("dates", text),
     times               |-> FindAll("times", text)]

(***************************************************************************)
(* summarize_analysis                                                      *)
(***************************************************************************)
EmptySummary(analysis_) ==
    [pages_scanned                   |-> Len(analysis_),
     text_layer_pages                |-> << >>,
     ocr_success_pages               |-> << >>,
     unique_application_like_numbers |-> {},
     unique_dates                    |-> {},
     unique_times                    |-> {},
     unique_ip_addresses             |-> {},
     unique_uppercase_phrases        |-> {}]

\* one iteration of  for page in analysis
SummarizePage(acc, page) ==
    [acc EXCEPT
       !.text_layer_pages =
           IF page.text_layer_present THEN Append(@, page.page) ELSE @,
       !.ocr_success_pages =
           IF page.ocr_status = "success" THEN Append(@, page.page) ELSE @,
       !.unique_application_like_numbers = @ \cup Range(page.details.application_numbers),
       !.unique_dates = @ \cup Range(page.details.dates),
       !.unique_times = @ \cup Range(page.details.times),
       !.unique_ip_addresses = @ \cup Range(page.details.ip_addresses),
       !.unique_uppercase_phrases = @ \cup Range(FindAll("uppercase", page.combined_text))]

RECURSIVE SummarizePages(_, _)
SummarizePages(acc, rest) ==
    IF rest = << >> THEN acc
    ELSE SummarizePages(SummarizePage(acc, Head(rest)), Tail(rest))

\* the closing loop: every set becomes a sorted list
SetsToSortedLists(acc) ==
    [acc EXCEPT
       !.unique_application_like_numbers = Sorted(@),
       !.unique_dates = Sorted(@),
       !.unique_times = Sorted(@),
       !.unique_ip_addresses = Sorted(@),
       !.unique_uppercase_phrases = Sorted(@)]

summarize_analysis(analysis_) ==
    SetsToSortedLists(SummarizePages(EmptySummary(analysis_), analysis_))

(***************************************************************************)
(* generate_paragraph_summary                                              *)
(* The paragraph is modelled as the sequence of its sentences; a sentence  *)
(* is its template (kind) and the values formatted into it.                *)
(***************************************************************************)
Take(s, k) == SubSeq(s, 1, IF Len(s) < k THEN Len(s) ELSE k)

\* the first element of lines: two sentences in one f-string
PageCountLine(summary_) ==
    << [kind |-> "page_count", value |-> <<summary_.pages_scanned>>],
       [kind |-> "text_layer_pages", value |-> summary_.text_layer_pages] >>

OcrLine(summary_) ==
    IF summary_.ocr_success_pages # << >>
    THEN << [kind |-> "ocr_success_pages", value |-> summary_.ocr_success_pages] >>
    ELSE << >>

NumbersLine(summary_) ==
    IF summary_.unique_application_like_numbers # << >>
    THEN << [kind |-> "numeric_identifiers",
             value |-> <<Len(summary_.unique_application_like_numbers)>>] >>
    ELSE << >>

DatesLine(summary_) ==
    IF summary_.unique_dates # << >>
    THEN << [kind |-> "dates", value |-> Take(summary_.unique_dates, 3)] >>
    ELSE << >>

TimesLine(summary_) ==
    IF summary_.unique_times # << >>
    THEN << [kind |-> "times", value |-> Take(summary_.unique_times, 3)] >>
    ELSE << >>

IpLine(summary_) ==
    IF summary_.unique_ip_addresses # << >>
    THEN << [kind |-> "ip_addresses", value |-> << >>] >>
    ELSE << >>

UppercaseLine(summary_) ==
    IF summary_.unique_uppercase_phrases # << >>
    THEN << [kind |-> "uppercase_phrases",
             value |-> Take(summary_.unique_uppercase_phrases, 4)] >>
    ELSE << >>

\* " ".join(lines)
generate_paragraph_summary(summary_) ==
    PageCountLine(summary_) \o OcrLine(summary_) \o NumbersLine(summary_)
      \o DatesLine(summary_) \o TimesLine(summary_) \o IpLine(summary_)
      \o UppercaseLine(summary_)

(***************************************************************************)
(* detect_document_type                                                    *)
(***************************************************************************)
KW_APPLICATION == <<"A","P","P","L","I","C","A","T","I","O","N">>
KW_CONFIRMATION == <<"C","O","N","F","I","R","M","A","T","I","O","N">>
KW_Amount == <<"A","m","o","u","n","t">>
KW_Payment == <<"P","a","y","m","e","n","t">>
KW_GOVERNMENT == <<"G","O","V","E","R","N","M","E","N","T">>
KW_MINISTRY == <<"M","I","N","I","S","T","R","Y">>
KW_Marks == <<"M","a","r","k","s">>
KW_Examination == <<"E","x","a","m","i","n","a","t","i","o","n">>
KW_Aadhaar == <<"A","a","d","h","a","a","r">>
KW_Passport == <<"P","a","s","s","p","o","r","t">>

\* the keys of scores, in insertion order
Categories == <<"application_form", "invoice_or_payment", "government_notice",
                "identity_document", "educational_record">>

\* number of iterations of a loop over list whose body's condition holds for
\* either keyword
Hits(list, kw1, kw2) ==
    Cardinality({i \in 1..Len(list) : Contains(list[i], kw1) \/ Contains(list[i], kw2)})

PageTexts(analysis_) == [i \in 1..Len(analysis_) |-> analysis_[i].combined_text]

Repeat(x, n) == [i \in 1..n |-> x]

ApplicationHits(summary_) ==
    Hits(summary_.unique_uppercase_phrases, KW_APPLICATION, KW_CONFIRMATION)

ApplicationScore(summary_) ==
    (IF summary_.unique_application_like_numbers # << >> THEN 2 ELSE 0)
      + 2 * ApplicationHits(summary_)

InvoiceHits(analysis_) == Hits(PageTexts(analysis_), KW_Amount, KW_Payment)

\* the score is raised once for the document, not once for each page
InvoiceScore_OncePerDocument(analysis_) == IF InvoiceHits(analysis_) > 0 THEN 2 ELSE 0

InvoiceScore(analysis_) == 2 * InvoiceHits(analysis_)

GovernmentHits(summary_) ==
    Hits(summary_.unique_uppercase_phrases, KW_GOVERNMENT, KW_MINISTRY)

GovernmentScore(summary_) == 2 * GovernmentHits(summary_)

EducationalHits(analysis_) == Hits(PageTexts(analysis_), KW_Marks, KW_Examination)

EducationalScore(analysis_) == EducationalHits(analysis_)

IdentityHits(analysis_) == Hits(PageTexts(analysis_), KW_Aadhaar, KW_Passport)

IdentityScore(analysis_) == 2 * IdentityHits(analysis_)

Scores(summary_, analysis_) ==
    [c \in Range(Categories) |->
        CASE c = "application_form"   -> ApplicationScore(summary_)
          [] c = "invoice_or_payment" -> InvoiceScore(analysis_)
          [] c = "government_notice"  -> GovernmentScore(summary_)
          [] c = "identity_document"  -> IdentityScore(analysis_)
          [] c = "educational_record" -> EducationalScore(analysis_)]

Reasons(summary_, analysis_) ==
    [c \in Range(Categories) |->
        CASE c = "application_form" ->
               (IF summary_.unique_application_like_numbers # << >>
                THEN <<"Contains long numeric identifiers">> ELSE << >>)
                 \o Repeat("Contains application-related headings", ApplicationHits(summary_))
          [] c = "invoice_or_payment" ->
               Repeat("Payment-related keywords found", InvoiceHits(analysis_))
          [] c = "government_notice" ->
               Repeat("Government-related entities found", GovernmentHits(summary_))
          [] c = "identity_document" ->
               Repeat("Identity-related keywords found", IdentityHits(analysis_))
          [] c = "educational_record" ->
               Repeat("Education-related terms found", EducationalHits(analysis_))]

\* the last key, in insertion order, whose value is the largest
BestType_LastMax(scores) ==
    Categories[Max({i \in 1..Len(Categories) :
                      \A j \in 1..Len(Categories) :
                          scores[Categories[i]] >= scores[Categories[j]]})]

\* max(scores, key=scores.get): the first key, in insertion order, whose
\* value is the largest
BestType(scores) ==
    Categories[Min({i \in 1..Len(Categories) :
                      \A j \in 1..Len(Categories) :
                          scores[Categories[i]] >= scores[Categories[j]]})]

\* round(best_score / 5, 2) without min(1.0, .)
Confidence_Unclamped(best_score) == best_score * 20

\* round(min(1.0, best_score / 5), 2), in hundredths
Confidence(best_score) == IF best_score * 20 < 100 THEN best_score * 20 ELSE 100

detect_document_type(summary_, analysis_) ==
    LET scores     == Scores(summary_, analysis_)
        best_type  == BestType(scores)
        best_score == scores[best_type]
    IN  IF best_score = 0
        THEN [document_type |-> "unknown",
              confidence    |-> 0,
              reasoning     |-> <<"No strong signals detected">>]
        ELSE [document_type |-> best_type,
              confidence    |-> Confidence(best_score),
              reasoning     |-> Reasons(summary_, analysis_)[best_type]]

(***************************************************************************)
(* assess_document_quality (scores in hundredths)                          *)
(***************************************************************************)
\* ocr_ratio = ocr_pages / total_pages if total_pages else 0, compared with
\* 0.8 and 0.4: p/n > 0.8 iff 5p > 4n, p/n > 0.4 iff 5p > 2n
OcrQuality(summary_) ==
    LET total_pages == summary_.pages_scanned
        ocr_pages   == Len(summary_.ocr_success_pages)
    IN  IF total_pages # 0 /\ 5 * ocr_pages > 4 * total_pages THEN "high"
        ELSE IF total_pages # 0 /\ 5 * ocr_pages > 2 * total_pages THEN "medium"
        ELSE "low"

TextNoise(summary_) ==
    LET uppercase_count == Len(summary_.unique_uppercase_phrases)
    IN  IF uppercase_count > 40 THEN "high"
        ELSE IF uppercase_count > 15 THEN "medium"
        ELSE "low"

NumericDensity(summary_) ==
    LET numeric_count == Len(summary_.unique_application_like_numbers)
                           + Len(summary_.unique_dates)
    IN  IF numeric_count > 6 THEN "high"
        ELSE IF numeric_count > 2 THEN "medium"
        ELSE "low"

\* a high OCR quality adds 0.3 in place of 0.4
OcrPoints_LowerBonus(ocr_quality) ==
    IF ocr_quality = "high" THEN 30 ELSE IF ocr_quality = "medium" THEN 25 ELSE 10

OcrPoints(ocr_quality) ==
    IF ocr_quality = "high" THEN 40 ELSE IF ocr_quality = "medium" THEN 25 ELSE 10

NumericPoints(numeric_density) ==
    IF numeric_density = "high" THEN 30 ELSE IF numeric_density = "medium" THEN 20 ELSE 10

NoisePoints(text_noise) == IF text_noise = "low" THEN 20 ELSE 10

TextLayerPoints(summary_) ==
    IF Len(summary_.text_layer_pages) = summary_.pages_scanned THEN 10 ELSE 5

\* round(min(score, 1.0), 2)
OverallConfidence(summary_) ==
    LET score == OcrPoints(OcrQuality(summary_))
                   + NumericPoints(NumericDensity(summary_))
                   + NoisePoints(TextNoise(summary_))
                   + TextLayerPoints(summary_)
    IN  IF score < 100 THEN score ELSE 100

\* the thresholds compared with > in place of >=
RecommendedAction_Exclusive(score) ==
    IF score > 75 THEN "auto_process"
    ELSE IF score > 50 THEN "manual_review_recommended"
    ELSE "manual_review_required"

RecommendedAction(score) ==
    IF score >= 75 THEN "auto_process"
    ELSE IF score >= 50 THEN "manual_review_recommended"
    ELSE "manual_review_required"

QualityReasons(summary_) ==
    << CASE OcrQuality(summary_) = "high"   -> "OCR succeeded on most pages"
         [] OcrQuality(summary_) = "medium" -> "OCR partially succeeded"
         [] OTHER                           -> "OCR failed on many pages",
       CASE TextNoise(summary_) = "high"   -> "High amount of OCR noise detected"
         [] TextNoise(summary_) = "medium" -> "Moderate OCR noise detected"
         [] OTHER                          -> "Low OCR noise",
       CASE NumericDensity(summary_) = "high"   -> "Document contains many structured numeric values"
         [] NumericDensity(summary_) = "medium" -> "Some structured numeric values detected"
         [] OTHER                               -> "Few structured numeric values detected" >>

\* the analysis argument is never read
assess_document_quality(summary_, analysis_) ==
    [ocr_quality        |-> OcrQuality(summary_),
     text_noise         |-> TextNoise(summary_),
     numeric_density    |-> NumericDensity(summary_),
     overall_confidence |-> OverallConfidence(summary_),
     recommended_action |-> RecommendedAction(OverallConfidence(summary_)),
     reasoning          |-> QualityReasons(summary_)]

(***************************************************************************)
(* upload_pdf                                                              *)
(***************************************************************************)
Text_Invoice == <<"i","n","v","o","i","c","e"," ","p","a","y","m","e","n","t"," ","t","a","x"," ","i","n","v","o","i","c","e">>
Text_Scenario == <<"I","D"," ","1","2","3","4","5","6","7","8","9","0"," ","d","a","t","e","d"," ","2","0","2","4","-","0","1","-","0","5"," ","a","t"," ","1","0",":","3","0",":","0","0"," ","f","r","o","m"," ","1","0",".","0",".","0",".","1">>
Text_Amount == <<"A","m","o","u","n","t"," ","0","5","-","0","1","-","2","0","2","4"," ","P","a","y","m","e","n","t">>
Text_Application == <<"A","P","P","L","I","C","A","T","I","O","N"," ","F","O","R","M"," ","9","8","7","6","5","4","3","2","1","0"," ","C","O","N","F","I","R","M","A","T","I","O","N">>
Text_Ministry == <<"M","I","N","I","S","T","R","Y"," ","O","F"," ","H","E","A","L","T","H"," ","P","a","s","s","p","o","r","t">>
Text_Marks == <<"M","a","r","k","s"," ","2","0","2","4","-","0","1","-","0","5">>
Text_Ledger == <<"2","0","2","4","-","0","1","-","0","1"," ","2","0","2","4","-","0","1","-","0","2"," ","2","0","2","4","-","0","1","-","0","3"," ","2","0","2","4","-","0","1","-","0","4"," ","0","5","-","0","1","-","2","0","2","4">>
Ocr_Payment == <<"P","a","y","m","e","n","t"," ","1","2","3","4","5","6","7","8","9","0"," ">>

\* what page.extract_text() or "" can give for a page
TextLayers == {<< >>, Text_Invoice, Text_Scenario, Text_Amount, Text_Application,
               Text_Ministry, Text_Marks, Text_Ledger}

\* what the OCR calls do for a page: raise, or return a text
OcrOutcomes == {[raises |-> TRUE,  text |-> << >>],
                [raises |-> FALSE, text |-> << >>],
                [raises |-> FALSE, text |-> Ocr_Payment]}

PdfPage == [text_layer : TextLayers, ocr : OcrOutcomes]

\* reader.pages of the uploaded file
PdfFiles == UNION {[1..n -> PdfPage] : n \in 0..MaxPages}

ContentTypes == {"application/pdf", "text/plain"}

Unset == << >>

Init ==
    /\ OCR_AVAILABLE \in BOOLEAN
    /\ content_type \in ContentTypes
    \* a file that is not a PDF is never opened: it has no pages here
    /\ pages \in (IF content_type = "application/pdf" THEN PdfFiles ELSE {<< >>})
    /\ pc = "request"
    /\ analysis = << >>
    /\ summary = Unset
    /\ human_summary = Unset
    /\ document_type_info = Unset
    /\ quality = Unset

\* if file.content_type != "application/pdf": return {"error": ...}
RejectUpload ==
    /\ pc = "request"
    /\ content_type # "application/pdf"
    /\ pc' = "error"
    /\ UNCHANGED <<OCR_AVAILABLE, content_type, pages, analysis,
                   summary, human_summary, document_type_info, quality>>

\* the file is saved and opened: reader = PdfReader(pdf_path); analysis = []
OpenPdf ==
    /\ pc = "request"
    /\ content_type = "application/pdf"
    /\ pc' = "pages"
    /\ analysis' = << >>
    /\ UNCHANGED <<OCR_AVAILABLE, content_type, pages,
                   summary, human_summary, document_type_info, quality>>

\* the except branch leaves the status of the try block
OcrStatus_FailureUnrecorded(available, ocr) ==
    IF available THEN "success" ELSE "skipped"

\* OCR attempted whether or not it is available
OcrStatus_AlwaysAttempted(available, ocr) ==
    IF ocr.raises THEN "failed" ELSE "success"

\* the try block of one page
OcrStatus(available, ocr) ==
    IF available
    THEN IF ocr.raises THEN "failed" ELSE "success"
    ELSE "skipped"

OcrText(available, ocr) ==
    IF available /\ ~ocr.raises THEN ocr.text ELSE << >>

PageRecord(i, page) ==
    LET text_layer    == page.text_layer
        ocr_text      == OcrText(OCR_AVAILABLE, page.ocr)
        combined_text == Strip(text_layer \o <<"\n">> \o ocr_text)
    IN  [page               |-> i + 1,
         text_layer_present |-> Strip(text_layer) # << >>,
         ocr_status         |-> OcrStatus(OCR_AVAILABLE, page.ocr),
         combined_text      |-> combined_text,
         details            |-> analyze_text(combined_text)]

\* one iteration of  for i, page in enumerate(reader.pages)
ProcessPage ==
    /\ pc = "pages"
    /\ Len(analysis) < Len(pages)
    /\ analysis' = Append(analysis, PageRecord(Len(analysis), pages[Len(analysis) + 1]))
    /\ UNCHANGED <<OCR_AVAILABLE, content_type, pages, pc,
                   summary, human_summary, document_type_info, quality>>

\* after the loop: the four calls and the return
BuildReport ==
    /\ pc = "pages"
    /\ Len(analysis) = Len(pages)
    /\ summary' = summarize_analysis(analysis)
    /\ human_summary' = generate_paragraph_summary(summary')
    /\ document_type_info' = detect_document_type(summary', analysis)
    /\ quality' = assess_document_quality(summary', analysis)
    /\ pc' = "done"
    /\ UNCHANGED <<OCR_AVAILABLE, content_type, pages, analysis>>

Next == RejectUpload \/ OpenPdf \/ ProcessPage \/ BuildReport

Spec == Init /\ [][Next]_vars

(***************************************************************************)
(* assess_document_quality on its own: the summaries it is applied to      *)
(***************************************************************************)
\* largest pages_scanned of a summary
MaxAssessPages == 5
\* largest number of unique uppercase phrases of a summary
MaxUppercase == 41
\* largest number of unique application-like numbers of a summary
MaxNumbers == 4
\* largest number of unique dates of a summary
MaxDates == 4

Letters == SubSeq(Alphabet, 16, 41)
Digit(i) == Alphabet[5 + (i % 10)]

\* the i-th of a family of distinct uppercase phrases, ascending in i
NoisePhrase(i) ==
    <<"N","O","I","S","E", Letters[(((i - 1) \div 26) % 26) + 1], Letters[((i - 1) % 26) + 1]>>

\* the i-th of a family of distinct 10-digit numbers, ascending in i
NumberValue(i) == <<"1","2","3","4","5","6","7", Digit(i \div 100), Digit(i \div 10), Digit(i)>>

\* the i-th of a family of distinct dates, ascending in i
DateValue(i) == <<"2","0","2","4","-","0","1","-", Digit(i \div 10), Digit(i)>>

FirstPages(k) == [i \in 1..k |-> i]

InitAssess ==
    /\ OCR_AVAILABLE = TRUE
    /\ content_type = "application/pdf"
    /\ pages = << >>
    /\ pc = "assess"
    \* assess_document_quality never reads its analysis argument
    /\ analysis = << >>
    /\ \E n \in 0..MaxAssessPages, u \in 0..MaxUppercase,
          a \in 0..MaxNumbers, d \in 0..MaxDates :
         \E t \in 0..n, o \in 0..n :
           summary = [pages_scanned                   |-> n,
                      text_layer_pages                |-> FirstPages(t),
                      ocr_success_pages               |-> FirstPages(o),
                      unique_application_like_numbers |-> [i \in 1..a |-> NumberValue(i)],
                      unique_dates                    |-> [i \in 1..d |-> DateValue(i)],
                      unique_times                    |-> << >>,
                      unique_ip_addresses             |-> << >>,
                      unique_uppercase_phrases        |-> [i \in 1..u |-> NoisePhrase(i)]]
    /\ human_summary = Unset
    /\ document_type_info = Unset
    /\ quality = Unset

Assess ==
    /\ pc = "assess"
    /\ quality' = assess_document_quality(summary, analysis)
    /\ pc' = "assessed"
    /\ UNCHANGED <<OCR_AVAILABLE, content_type, pages, analysis, summary,
                   human_summary, document_type_info>>

NextAssess == Assess

SpecAssess == InitAssess /\ [][NextAssess]_vars

(***************************************************************************)
(* Properties                                                              *)
(***************************************************************************)
Statuses == {"skipped", "success", "failed"}

StrictlyAscending(list) ==
    \A i \in 1..(Len(list) - 1) : StrLess(list[i], list[i + 1])

\* the set of strings the pages of the analysis list give for a field
ExtractedFrom(field) ==
    UNION {Range(analysis[i].details[field]) : i \in 1..Len(analysis)}

UppercaseExtracted ==
    UNION {Range(FindAll("uppercase", analysis[i].combined_text)) : i \in 1..Len(analysis)}

\* the pages whose combined text holds one of two case-sensitive keywords
PagesWith(kw1, kw2) ==
    {i \in 1..Len(analysis) :
        Contains(analysis[i].combined_text, kw1) \/ Contains(analysis[i].combined_text, kw2)}

\* str.lower()
Lower(t) == [i \in 1..Len(t) |-> IF IsUpper(t[i]) THEN Alphabet[Ord(t[i]) + 26] ELSE t[i]]

\* the combined texts of all pages, one after the other
RECURSIVE JoinTexts(_)
JoinTexts(records) ==
    IF records = << >> THEN << >>
    ELSE Head(records).combined_text \o <<"\n">> \o JoinTexts(Tail(records))

Keyword_amount == <<"a","m","o","u","n","t">>
Keyword_payment == <<"p","a","y","m","e","n","t">>
Keyword_invoice == <<"i","n","v","o","i","c","e">>
Keyword_total_due == <<"t","o","t","a","l"," ","d","u","e">>
Keyword_tax_invoice == <<"t","a","x"," ","i","n","v","o","i","c","e">>

InvoiceKeywordList ==
    {Keyword_amount, Keyword_payment, Keyword_invoice, Keyword_total_due, Keyword_tax_invoice}

\* no category other than invoice_or_payment has any signal
OnlyInvoiceSignals ==
    /\ summary.unique_application_like_numbers = << >>
    /\ summary.unique_uppercase_phrases = << >>
    /\ PagesWith(KW_Marks, KW_Examination) = {}
    /\ PagesWith(KW_Aadhaar, KW_Passport) = {}

\* C1, as stated: overall_confidence is 0.5, plus 0.3 exactly when the OCR
\* ratio exceeds 0.8, minus 0.2 exactly when there are more than 30 unique
\* uppercase phrases, clamped to [0,1].
C1_BaselineBonusPenalty ==
    pc = "assessed" =>
        LET n       == summary.pages_scanned
            o       == Len(summary.ocr_success_pages)
            u       == Len(summary.unique_uppercase_phrases)
            bonus   == IF n # 0 /\ 5 * o > 4 * n THEN 30 ELSE 0
            penalty == IF u > 30 THEN 20 ELSE 0
            score   == 50 + bonus - penalty
        IN  quality.overall_confidence =
                (IF score < 0 THEN 0 ELSE IF score > 100 THEN 100 ELSE score)

\* C1, amended: overall_confidence is the sum, capped at 1.0, of four parts:
\* 0.4 / 0.25 / 0.1 for an OCR ratio > 0.8 / > 0.4 / otherwise, 0.3 / 0.2 /
\* 0.1 for more than 6 / more than 2 / otherwise unique numbers plus dates,
\* 0.2 for at most 15 unique uppercase phrases and 0.1 for more, 0.1 when
\* every page has a text layer and 0.05 otherwise.  So 3 pages all with OCR
\* success and no uppercase phrase give 0.75 to 1.0, and 5 pages with no OCR
\* success and 35 uppercase phrases give 0.35 to 0.6.
C1_ConfidenceIsSumOfFourParts ==
    pc = "assessed" =>
        LET n     == summary.pages_scanned
            o     == Len(summary.ocr_success_pages)
            t     == Len(summary.text_layer_pages)
            u     == Len(summary.unique_uppercase_phrases)
            k     == Len(summary.unique_application_like_numbers) + Len(summary.unique_dates)
            ocr   == IF n # 0 /\ 5 * o > 4 * n THEN 40
                     ELSE IF n # 0 /\ 5 * o > 2 * n THEN 25 ELSE 10
            num   == IF k > 6 THEN 30 ELSE IF k > 2 THEN 20 ELSE 10
            noise == IF u <= 15 THEN 20 ELSE 10
            text  == IF t = n THEN 10 ELSE 5
            total == ocr + num + noise + text
        IN  /\ quality.overall_confidence = (IF total > 100 THEN 100 ELSE total)
            /\ (n = 3 /\ o = 3 /\ u = 0) =>
                   quality.overall_confidence \in {75, 80, 85, 90, 95, 100}
            /\ (n = 5 /\ o = 0 /\ u = 35) =>
                   quality.overall_confidence \in {35, 40, 45, 50, 55, 60}

\* 5 pages, no OCR success, 35 uppercase phrases, not every page with a text
\* layer, few numeric values: assessed at 0.35
C1_Witness ==
    /\ pc = "assessed"
    /\ summary.pages_scanned = 5
    /\ summary.ocr_success_pages = << >>
    /\ Len(summary.unique_uppercase_phrases) = 35
    /\ quality.overall_confidence = 35

\* C2, as stated: the invoice_or_payment score is the number of keywords of
\* {amount, payment, invoice, total due, tax invoice} that occur in the
\* lower-cased concatenation of all pages' text; a document with "invoice",
\* "payment" and "tax invoice" and no other signal is invoice_or_payment
\* with confidence 0.6.
C2_KeywordPerDocument ==
    pc = "done" =>
        LET full == Lower(JoinTexts(analysis))
            hits == Cardinality({kw \in InvoiceKeywordList : Contains(full, kw)})
        IN  /\ Scores(summary, analysis)["invoice_or_payment"] = hits
            /\ ( /\ Contains(full, Keyword_invoice)
                 /\ Contains(full, Keyword_payment)
                 /\ Contains(full, Keyword_tax_invoice)
                 /\ hits = 3
                 /\ OnlyInvoiceSignals )
               => /\ document_type_info.document_type = "invoice_or_payment"
                  /\ document_type_info.confidence = 60

\* C2, amended: invoice_or_payment gets +2 for every page whose combined
\* text holds "Amount" or "Payment" with exactly that capitalisation, and
\* for nothing else.  With k such pages: the type is invoice_or_payment only
\* if k > 0, and then the confidence is min(1.0, 2k/5) with k reasons; it is
\* invoice_or_payment whenever k > 0 and no other category has a signal; a
\* document with only lower-case "invoice", "payment", "tax invoice" and no
\* other signal is "unknown" with confidence 0.0.
C2_TwoPerPageWithAmountOrPayment ==
    pc = "done" =>
        LET k == Cardinality(PagesWith(KW_Amount, KW_Payment))
        IN  /\ document_type_info.document_type = "invoice_or_payment" =>
                 /\ k > 0
                 /\ document_type_info.confidence = (IF 40 * k > 100 THEN 100 ELSE 40 * k)
                 /\ Len(document_type_info.reasoning) = k
            /\ (k > 0 /\ OnlyInvoiceSignals) =>
                 document_type_info.document_type = "invoice_or_payment"
            /\ (k = 0 /\ OnlyInvoiceSignals) =>
                 /\ document_type_info.document_type = "unknown"
                 /\ document_type_info.confidence = 0

\* two pages that both hold "Amount" or "Payment" and nothing else that
\* counts: invoice_or_payment at 0.8
C2_Witness ==
    /\ pc = "done"
    /\ Cardinality(PagesWith(KW_Amount, KW_Payment)) = 2
    /\ OnlyInvoiceSignals
    /\ document_type_info.document_type = "invoice_or_payment"
    /\ document_type_info.confidence = 80

C3_TableOrder == <<"application_form", "invoice_or_payment", "government_notice",
                   "identity_document", "educational_record">>

\* C3: the returned type has the largest score and no category before it in
\* the order application_form, invoice_or_payment, government_notice,
\* identity_document, educational_record reaches that score; when the
\* largest score is 0 the result is "unknown", 0.0, one fixed reason.
C3_BestCategoryFirstOnTies ==
    pc = "done" =>
        LET sc == Scores(summary, analysis)
        IN  IF \A c \in DOMAIN sc : sc[c] = 0
            THEN document_type_info = [document_type |-> "unknown",
                                       confidence    |-> 0,
                                       reasoning     |-> <<"No strong signals detected">>]
            ELSE \E i \in 1..Len(C3_TableOrder) :
                    /\ document_type_info.document_type = C3_TableOrder[i]
                    /\ \A j \in 1..Len(C3_TableOrder) :
                          sc[C3_TableOrder[j]] <= sc[C3_TableOrder[i]]
                    /\ \A j \in 1..(i - 1) :
                          sc[C3_TableOrder[j]] < sc[C3_TableOrder[i]]

\* government_notice and identity_document tie for the largest score and
\* government_notice is returned
C3_Witness ==
    /\ pc = "done"
    /\ LET sc == Scores(summary, analysis)
       IN  /\ sc["government_notice"] > 0
           /\ sc["government_notice"] = sc["identity_document"]
           /\ \A c \in DOMAIN sc : sc[c] <= sc["government_notice"]
    /\ document_type_info.document_type = "government_notice"

\* C4: both confidences lie in [0,1]
C4_ConfidencesInUnitInterval ==
    pc = "done" =>
        /\ document_type_info.confidence \in 0..100
        /\ quality.overall_confidence \in 0..100

\* a category scores more than 5 and the confidence is 1.0
C4_Witness ==
    /\ pc = "done"
    /\ \E c \in DOMAIN Scores(summary, analysis) : Scores(summary, analysis)[c] > 5
    /\ document_type_info.confidence = 100

\* C5: auto_process from 0.75 up, manual_review_recommended from 0.5 up to
\* but not including 0.75, manual_review_required below 0.5
C5_ActionThresholds ==
    pc = "assessed" =>
        LET score  == quality.overall_confidence
            action == quality.recommended_action
        IN  /\ score >= 75 => action = "auto_process"
            /\ (score >= 50 /\ score < 75) => action = "manual_review_recommended"
            /\ score < 50 => action = "manual_review_required"

\* a score of exactly 0.75 gives auto_process
C5_Witness ==
    /\ pc = "assessed"
    /\ quality.overall_confidence = 75
    /\ quality.recommended_action = "auto_process"

\* C6: the reasoning list of detect_document_type holds no reason twice
C6_NoDuplicateReasons ==
    pc = "done" =>
        \A i, j \in 1..Len(document_type_info.reasoning) :
            i # j => document_type_info.reasoning[i] # document_type_info.reasoning[j]

\* C7: the analysis list holds the records of pages 1, 2, ... in order, each
\* with a status of skipped, success or failed, and failed where the OCR of
\* the page raised; the upload of a PDF never ends in the error response;
\* the report is over all pages and pages_scanned is their number.
C7_EveryPageReported ==
    /\ Len(analysis) <= Len(pages)
    /\ \A i \in 1..Len(analysis) :
          /\ analysis[i].page = i
          /\ analysis[i].ocr_status \in Statuses
          /\ (OCR_AVAILABLE /\ pages[i].ocr.raises) => analysis[i].ocr_status = "failed"
    /\ content_type = "application/pdf" => pc # "error"
    /\ pc = "done" =>
          /\ Len(analysis) = Len(pages)
          /\ summary.pages_scanned = Len(pages)

\* the OCR of page 1 raised and page 2 is reported all the same
C7_Witness ==
    /\ pc = "done"
    /\ OCR_AVAILABLE
    /\ Len(pages) = 2
    /\ pages[1].ocr.raises
    /\ analysis[1].ocr_status = "failed"
    /\ analysis[2].ocr_status = "success"
    /\ summary.pages_scanned = 2

\* C8: every unique_* list is strictly ascending and holds exactly the
\* strings extracted from at least one page
C8_UniqueListsSortedUnions ==
    pc = "done" =>
        /\ StrictlyAscending(summary.unique_application_like_numbers)
        /\ StrictlyAscending(summary.unique_dates)
        /\ StrictlyAscending(summary.unique_times)
        /\ StrictlyAscending(summary.unique_ip_addresses)
        /\ StrictlyAscending(summary.unique_uppercase_phrases)
        /\ Range(summary.unique_application_like_numbers) = ExtractedFrom("application_numbers")
        /\ Range(summary.unique_dates) = ExtractedFrom("dates")
        /\ Range(summary.unique_times) = ExtractedFrom("times")
        /\ Range(summary.unique_ip_addresses) = ExtractedFrom("ip_addresses")
        /\ Range(summary.unique_uppercase_phrases) = UppercaseExtracted

\* page 1 gives one number, page 2 gives a smaller number twice: the list
\* holds the two numbers, the one of page 2 first
C8_Witness ==
    /\ pc = "done"
    /\ Len(analysis) = 2
    /\ Len(analysis[1].details.application_numbers) = 1
    /\ Len(analysis[2].details.application_numbers) = 2
    /\ analysis[2].details.application_numbers[1] = analysis[2].details.application_numbers[2]
    /\ Len(summary.unique_application_like_numbers) = 2
    /\ summary.unique_application_like_numbers[1] = analysis[2].details.application_numbers[1]

\* C9: after the page-count sentence, the paragraph holds the sentence of a
\* category exactly when the summary has data for it, in the order text-layer
\* pages, OCR success pages, numeric identifiers, dates, times, IP
\* addresses, uppercase phrases.
C9_SentenceIffData ==
    pc = "done" =>
        LET If(list, kind) == IF list # << >> THEN <<kind>> ELSE << >>
        IN  [i \in 1..Len(human_summary) |-> human_summary[i].kind] =
              <<"page_count">>
                \o If(summary.text_layer_pages, "text_layer_pages")
                \o If(summary.ocr_success_pages, "ocr_success_pages")
                \o If(summary.unique_application_like_numbers, "numeric_identifiers")
                \o If(summary.unique_dates, "dates")
                \o If(summary.unique_times, "times")
                \o If(summary.unique_ip_addresses, "ip_addresses")
                \o If(summary.unique_uppercase_phrases, "uppercase_phrases")

\* C10: with OCR unavailable every record is skipped, no page counts as an
\* OCR success, the overall confidence is at most 0.70 and the action is
\* never auto_process
C10_NoOcrNeverAutoProcess ==
    ~OCR_AVAILABLE =>
        /\ \A i \in 1..Len(analysis) : analysis[i].ocr_status = "skipped"
        /\ pc = "done" =>
              /\ summary.ocr_success_pages = << >>
              /\ quality.overall_confidence <= 70
              /\ quality.recommended_action # "auto_process"

\* OCR unavailable and the confidence reaches 0.70
C10_Witness ==
    /\ pc = "done"
    /\ ~OCR_AVAILABLE
    /\ Len(pages) > 0
    /\ quality.overall_confidence = 70
    /\ quality.recommended_action = "manual_review_recommended"

====
